---- MODULE Spec2Model ----
(***************************************************************************)
(* Model of server.js: the request dispatcher (requestHandler), the body   *)
(* reader (readBody), the Groq client (groqRequest), the two API handlers  *)
(* (listModels, proxyGroqChat / doGroqChat) and the static file server     *)
(* (serveStatic).                                                          *)
(*                                                                         *)
(* Text is a sequence of atoms (indivisible pieces of text): "/" and "."   *)
(* are atoms of their own, so that path handling sees separators and dot   *)
(* segments, and a blocklisted fragment such as "whisper" is one atom.     *)
(* Concatenation is \o, startsWith is the prefix test, includes / a regex  *)
(* of literal alternatives is the contiguous-subsequence test.             *)
(*                                                                         *)
(* A JavaScript value is a tagged record [t |-> type, v |-> value].        *)
(***************************************************************************)
EXTENDS Integers, Sequences, FiniteSets, TLC

VARIABLES
    GROQ_API_KEY,    \* server.js:21, text; <<>> when the variable is unset
    requestCounter,  \* server.js:44
    reqs,            \* reqId -> the state of that request's handler and streams
    arg,             \* input of the unit under check (the Spec<Unit> specifications)
    ret              \* its result, NoValue until it has run

vars == <<GROQ_API_KEY, requestCounter, reqs, arg, ret>>

---------------------------------------------------------------------------
(* Bounds *)

MaxReq == 1          \* inbound requests accepted in one run
MaxChunks == 3       \* 'data' events delivered to one request
MaxImages == 2       \* attachments of one chat message
MaxModels == 2       \* entries of one upstream model listing
MaxSegs == 3         \* path segments of one static request
MaxLines == 2        \* lines of the .env file

---------------------------------------------------------------------------
(* Text *)

StartsWith(s, p) == Len(s) >= Len(p) /\ SubSeq(s, 1, Len(p)) = p

Includes(s, sub) ==
    \E i \in 0..(Len(s) - Len(sub)) : SubSeq(s, i + 1, i + Len(sub)) = sub

\* Index of the first atom of s that is in set cs, 0 when there is none.
FirstOf(s, cs) ==
    IF \E i \in 1..Len(s) : s[i] \in cs
    THEN CHOOSE i \in 1..Len(s) : s[i] \in cs /\ \A j \in 1..(i - 1) : s[j] \notin cs
    ELSE 0

\* s.split('/')
RECURSIVE Split(_)
Split(s) ==
    LET i == FirstOf(s, {"/"})
    IN  IF i = 0 THEN <<s>>
        ELSE <<SubSeq(s, 1, i - 1)>> \o Split(SubSeq(s, i + 1, Len(s)))

\* "/" + segs.join("/") with a leading "/" before every segment
RECURSIVE JoinSlash(_)
JoinSlash(segs) ==
    IF segs = <<>> THEN <<>>
    ELSE <<"/">> \o Head(segs) \o JoinSlash(Tail(segs))

Dot == <<".">>
DotDot == <<".", ".">>
ButLast(q) == IF q = <<>> THEN q ELSE SubSeq(q, 1, Len(q) - 1)

---------------------------------------------------------------------------
(* JavaScript values *)

Undefined == [t |-> "undefined"]
Null == [t |-> "null"]
JStr(s) == [t |-> "string", v |-> s]
JNum(n) == [t |-> "number", v |-> n]       \* n is the number's text
JBool(b) == [t |-> "boolean", v |-> b]
JArr(a) == [t |-> "array", v |-> a]
JObj(r) == [t |-> "object", v |-> r]
EmptyObj == [t |-> "object", v |-> <<>>]

\* x?.k
Get(x, k) == IF x.t = "object" /\ k \in DOMAIN x.v THEN x.v[k] ELSE Undefined

\* x?.[0]
Get0(x) ==
    CASE x.t \in {"array", "string"} /\ Len(x.v) > 0 ->
            IF x.t = "array" THEN x.v[1] ELSE JStr(<<x.v[1]>>)
      [] x.t = "object" /\ "0" \in DOMAIN x.v -> x.v["0"]
      [] OTHER -> Undefined

\* x.k throws a TypeError on undefined and null
Throws(x) == x.t \in {"undefined", "null"}

IsArray(x) == x.t = "array"

Truthy(x) ==
    CASE x.t \in {"undefined", "null"} -> FALSE
      [] x.t = "string" -> x.v # <<>>
      [] x.t = "number" -> x.v # <<"0">>
      [] x.t = "boolean" -> x.v
      [] OTHER -> TRUE

\* typeof x === 'object' (true of null, arrays and objects)
TypeofObject(x) == x.t \in {"null", "array", "object"}

\* String(x) for the values the model draws
String(x) ==
    CASE x.t = "string" -> x.v
      [] x.t = "number" -> x.v
      [] x.t = "boolean" -> IF x.v THEN <<"true">> ELSE <<"false">>
      [] x.t = "undefined" -> <<"undefined">>
      [] x.t = "null" -> <<"null">>
      [] OTHER -> <<"[object]">>

\* a || b
Or(a, b) == IF Truthy(a) THEN a ELSE b

\* A raw body is either the serialisation of a value or text that is no JSON.
Json(v) == [parses |-> TRUE, value |-> v]
NotJson(text) == [parses |-> FALSE, text |-> text]

\* s.slice(0, n); the texts of the model are shorter than n
Slice(s, n) == SubSeq(s, 1, IF Len(s) < n THEN Len(s) ELSE n)

\* try { JSON.parse(raw) } catch
JSONparse(raw) ==
    IF raw.parses THEN [ok |-> TRUE, value |-> raw.value] ELSE [ok |-> FALSE]

NoValue == [t |-> "none"]

---------------------------------------------------------------------------
(* Program constants *)

MAX_CHAT_BYTES == 20000000

GROQ_MODELS_FALLBACK ==
    JArr(<< JObj([name |-> JStr(<<"meta-llama/llama-4-maverick-17b-128e-instruct">>)]),
            JObj([name |-> JStr(<<"meta-llama/llama-4-scout-17b-16e-instruct">>)]),
            JObj([name |-> JStr(<<"llama-3.3-70b-versatile">>)]),
            JObj([name |-> JStr(<<"llama-3.1-8b-instant">>)]),
            JObj([name |-> JStr(<<"llama3-70b-8192">>)]),
            JObj([name |-> JStr(<<"llama3-8b-8192">>)]),
            JObj([name |-> JStr(<<"gemma2-9b-it">>)]),
            JObj([name |-> JStr(<<"mixtral-8x7b-32768">>)]) >>)

\* mutant: the regex of the earlier server (unnamed/part_000:151)
Blocklist_WithVision ==
    { <<"whisper">>, <<"tts">>, <<"embed">>, <<"guard">>, <<"vision">> }

\* the alternatives of /whisper|tts|embed|guard/
Blocklist == { <<"whisper">>, <<"tts">>, <<"embed">>, <<"guard">> }

MissingKeyMessage ==
    << "GROQ_API_KEY", " environment variable is not set. Start the server with: ",
       "GROQ_API_KEY", "=your_key npm run dev" >>

TimeoutMessage == << "Groq request timed out" >>

\* { error: { message } }
ErrorPayload(message) == JObj([error |-> JObj([message |-> JStr(message)])])

Reply(status, payload) == [status |-> status, payload |-> payload]

---------------------------------------------------------------------------
(* The .env loader and the configuration read from process.env              *)
(* (server.js:6-21). The file is text whose atoms are names, values, "=",   *)
(* " " and "\n"; process.env is a function from the names that are set to   *)
(* their values.                                                            *)

\* s.split(c)
RECURSIVE SplitOn(_, _)
SplitOn(s, c) ==
    LET i == FirstOf(s, {c})
    IN  IF i = 0 THEN <<s>>
        ELSE <<SubSeq(s, 1, i - 1)>> \o SplitOn(SubSeq(s, i + 1, Len(s)), c)

\* parts.join(c)
RECURSIVE JoinWith(_, _)
JoinWith(parts, c) ==
    IF parts = <<>> THEN <<>>
    ELSE IF Len(parts) = 1 THEN Head(parts)
    ELSE Head(parts) \o <<c>> \o JoinWith(Tail(parts), c)

RECURSIVE TrimStart(_)
TrimStart(s) == IF s # <<>> /\ Head(s) = " " THEN TrimStart(Tail(s)) ELSE s

RECURSIVE TrimEnd(_)
TrimEnd(s) == IF s # <<>> /\ s[Len(s)] = " " THEN TrimEnd(ButLast(s)) ELSE s

\* s.trim()
Trim(s) == TrimEnd(TrimStart(s))

\* process.env[name] = value
SetEnv(env, name, value) ==
    [k \in DOMAIN env \cup {name} |-> IF k = name THEN value ELSE env[k]]

\* the callback of forEach, lines 11-12
LoadLine(env, line) ==
    LET parts == SplitOn(Trim(line), "=")
        key == Head(parts)
        val == Tail(parts)
    IN  IF key # <<>> /\ Len(val) # 0
        THEN SetEnv(env, Trim(key), Trim(JoinWith(val, "=")))
        ELSE env

RECURSIVE LoadLines(_, _)
LoadLines(env, lines) ==
    IF lines = <<>> THEN env
    ELSE LoadLines(LoadLine(env, Head(lines)), Tail(lines))

NoFile == [exists |-> FALSE]
EnvFile(text) == [exists |-> TRUE, text |-> text]

\* lines 9-14
LoadEnv(env, file) ==
    IF file.exists THEN LoadLines(env, SplitOn(file.text, "\n")) ELSE env

\* process.env[name] || fallback
EnvOr(env, name, fallback) ==
    IF name \in DOMAIN env /\ env[name] # <<>> THEN env[name] ELSE fallback

Digits == <<"0", "1", "2", "3", "4", "5", "6", "7", "8", "9">>
DigitValue(d) == (CHOOSE i \in 1..10 : Digits[i] = d) - 1
IsDigit(a) == \E i \in 1..10 : Digits[i] = a

RECURSIVE ParseDigits(_, _)
ParseDigits(s, n) ==
    IF s = <<>> \/ ~IsDigit(Head(s)) THEN n
    ELSE ParseDigits(Tail(s), 10 * n + DigitValue(Head(s)))

\* Number.parseInt(s, 10) of a text without sign: the leading digits, NaN
\* when there is none
ParseInt(s) ==
    IF TrimStart(s) = <<>> \/ ~IsDigit(Head(TrimStart(s)))
    THEN [nan |-> TRUE]
    ELSE [nan |-> FALSE, n |-> ParseDigits(TrimStart(s), 0)]

\* line 20
PORT(env) == ParseInt(EnvOr(env, <<"PORT">>, <<"3", "0", "0", "0">>))

\* line 21
ApiKeyOf(env) == EnvOr(env, <<"GROQ_API_KEY">>, <<>>)

---------------------------------------------------------------------------
(* doGroqChat: message reshaping (server.js:172-198) *)

\* the data of one attachment (line 185)
ImageData(img) ==
    IF img.t = "string" THEN img.v ELSE String(Or(Get(img, "data"), JStr(<<>>)))

\* its mime type (line 186)
ImageMime(img) ==
    IF TypeofObject(img) /\ Truthy(Get(img, "mime"))
    THEN String(Get(img, "mime"))
    ELSE <<"image/png">>

ImageBlock(img) ==
    JObj([type |-> JStr(<<"image_url">>),
          image_url |-> JObj([url |-> JStr(<<"data:">> \o ImageMime(img)
                                           \o <<";base64,">> \o ImageData(img))])])

TextBlock(content) == JObj([type |-> JStr(<<"text">>), text |-> JStr(String(content))])

\* mutant: the `if (!data) continue` of line 187 is missing
RECURSIVE ImageBlocks_NoSkip(_)
ImageBlocks_NoSkip(images) ==
    IF images = <<>> THEN <<>>
    ELSE <<ImageBlock(Head(images))>> \o ImageBlocks_NoSkip(Tail(images))

\* the for loop of lines 183-192: one block per attachment with data, in order
RECURSIVE ImageBlocks(_)
ImageBlocks(images) ==
    IF images = <<>> THEN <<>>
    ELSE (IF ImageData(Head(images)) = <<>> THEN <<>> ELSE <<ImageBlock(Head(images))>>)
         \o ImageBlocks(Tail(images))

\* lines 178-192: the content list of a message that has attachments
ContentBlocks(m) ==
    (IF Truthy(Get(m, "content")) THEN <<TextBlock(Get(m, "content"))>> ELSE <<>>)
    \o ImageBlocks(Get(m, "images").v)

HasImages(m) == IsArray(Get(m, "images")) /\ Len(Get(m, "images").v) > 0

\* The callback of messages.map: m.role throws on a null or undefined element.
ReshapeMessage(m) ==
    IF ~HasImages(m)
    THEN IF Throws(m) THEN [throws |-> TRUE]
         ELSE [throws |-> FALSE,
               value |-> JObj([role |-> Get(m, "role"), content |-> Get(m, "content")])]
    ELSE IF ContentBlocks(m) = <<>>
         THEN [throws |-> FALSE,
               value |-> JObj([role |-> Get(m, "role"),
                               content |-> Or(Get(m, "content"), JStr(<<>>))])]
         ELSE [throws |-> FALSE,
               value |-> JObj([role |-> Get(m, "role"),
                               content |-> JArr(ContentBlocks(m))])]

\* lines 172-206: the upstream request body, or the TypeError of the map
ChatRequestBody(model, messages) ==
    IF \E i \in 1..Len(messages) : ReshapeMessage(messages[i]).throws
    THEN [throws |-> TRUE]
    ELSE [throws |-> FALSE,
          value |-> JObj([model |-> model,
                          messages |-> JArr([i \in 1..Len(messages) |->
                                                ReshapeMessage(messages[i]).value]),
                          temperature |-> JNum(<<"0.4">>),
                          max_tokens |-> JNum(<<"1500">>),
                          stream |-> JBool(FALSE)])]

---------------------------------------------------------------------------
(* doGroqChat: the two callbacks handed to groqRequest (server.js:211-235) *)

\* mutant: an upstream error status is replaced by 502
ChatOnDone_StatusLost(statusCode, data) ==
    LET parsed == JSONparse(data)
        json == parsed.value
        message == Or(Get(Get(json, "error"), "message"),
                      Or(Get(json, "message"), JStr(<<"Groq returned an error">>)))
        text == Get(Get(Get0(Get(json, "choices")), "message"), "content")
    IN  IF ~parsed.ok
        THEN Reply(502, ErrorPayload(<<"Bad JSON from Groq: ">> \o Slice(data.text, 180)))
        ELSE IF statusCode >= 400
        THEN Reply(502, ErrorPayload(<<"Groq error: ">> \o String(message)))
        ELSE IF ~Truthy(text)
        THEN Reply(502, ErrorPayload(<<"Groq returned empty content. Response preview: ",
                                       "<preview>">>))
        ELSE Reply(200, JObj([text |-> text]))

\* mutant: the check of line 223 tests for undefined only
ChatOnDone_EmptyTextPasses(statusCode, data) ==
    LET parsed == JSONparse(data)
        json == parsed.value
        message == Or(Get(Get(json, "error"), "message"),
                      Or(Get(json, "message"), JStr(<<"Groq returned an error">>)))
        text == Get(Get(Get0(Get(json, "choices")), "message"), "content")
    IN  IF ~parsed.ok
        THEN Reply(502, ErrorPayload(<<"Bad JSON from Groq: ">> \o Slice(data.text, 180)))
        ELSE IF statusCode >= 400
        THEN Reply(statusCode, ErrorPayload(<<"Groq error: ">> \o String(message)))
        ELSE IF text = Undefined
        THEN Reply(502, ErrorPayload(<<"Groq returned empty content. Response preview: ",
                                       "<preview>">>))
        ELSE Reply(200, JObj([text |-> text]))

ChatOnDone(statusCode, data) ==
    LET parsed == JSONparse(data)
        json == parsed.value
        message == Or(Get(Get(json, "error"), "message"),
                      Or(Get(json, "message"), JStr(<<"Groq returned an error">>)))
        text == Get(Get(Get0(Get(json, "choices")), "message"), "content")
    IN  IF ~parsed.ok
        THEN Reply(502, ErrorPayload(<<"Bad JSON from Groq: ">> \o Slice(data.text, 180)))
        ELSE IF statusCode >= 400
        THEN Reply(statusCode, ErrorPayload(<<"Groq error: ">> \o String(message)))
        ELSE IF ~Truthy(text)
        THEN Reply(502, ErrorPayload(<<"Groq returned empty content. Response preview: ",
                                       "<preview>">>))
        ELSE Reply(200, JObj([text |-> text]))

\* mutant: every transport error is answered 502
ChatOnError_All502(err) ==
    Reply(502, ErrorPayload(<<"Groq request failed: ">> \o err.message))

ChatOnError(err) ==
    IF Includes(err.message, <<"GROQ_API_KEY">>)
    THEN Reply(401, ErrorPayload(err.message))
    ELSE Reply(502, ErrorPayload(<<"Groq request failed: ">> \o err.message))

---------------------------------------------------------------------------
(* listModels: the two callbacks handed to groqRequest (server.js:131-165) *)

\* the filter of lines 148-154
IsChatModel(m) ==
    LET id == IF Get(m, "id").t = "string" THEN Get(m, "id").v ELSE <<>>
    IN  /\ id # <<>>
        /\ ~\E w \in Blocklist : Includes(id, w)

\* rawModels.filter(...).map((m) => ({ name: m.id }))
RECURSIVE ChatModels(_)
ChatModels(rawModels) ==
    IF rawModels = <<>> THEN <<>>
    ELSE (IF IsChatModel(Head(rawModels))
          THEN <<JObj([name |-> Get(Head(rawModels), "id")])>>
          ELSE <<>>)
         \o ChatModels(Tail(rawModels))

ModelsOnDone(statusCode, data) ==
    LET parsed == JSONparse(data)
        rawModels == IF IsArray(Get(parsed.value, "data"))
                     THEN Get(parsed.value, "data").v ELSE <<>>
        chatModels == ChatModels(rawModels)
    IN  IF statusCode >= 400
        THEN Reply(200, JObj([models |-> GROQ_MODELS_FALLBACK]))
        ELSE IF ~parsed.ok
        THEN Reply(200, JObj([models |-> GROQ_MODELS_FALLBACK]))
        ELSE Reply(200, JObj([models |-> IF Len(chatModels) # 0 THEN JArr(chatModels)
                                          ELSE GROQ_MODELS_FALLBACK]))

\* mutant: the transport error is surfaced to the caller
ModelsOnError_Surfaced(err) ==
    Reply(502, ErrorPayload(<<"Groq request failed: ">> \o err.message))

ModelsOnError(err) == Reply(200, JObj([models |-> GROQ_MODELS_FALLBACK]))

---------------------------------------------------------------------------
(* new URL(req.url, base).pathname (server.js:274), for origin-form request *)
(* targets: the query is cut, a target that starts with "//" names a host   *)
(* (none: the constructor throws), dot segments are removed.                *)

CutQuery(target) ==
    LET i == FirstOf(target, {"?", "#"})
    IN  IF i = 0 THEN target ELSE SubSeq(target, 1, i - 1)

RECURSIVE DropSlashes(_)
DropSlashes(s) == IF s # <<>> /\ Head(s) = "/" THEN DropSlashes(Tail(s)) ELSE s

\* the path of "//host/path" (the text from the first "/" after the host)
AfterHost(s) ==
    LET h == DropSlashes(s)
        i == FirstOf(h, {"/"})
    IN  IF i = 0 THEN <<"/">> ELSE SubSeq(h, i, Len(h))

\* WHATWG path state: ".." drops the last segment, "." is dropped; either one
\* as the last segment leaves an empty segment (a trailing "/").
RECURSIVE RemoveDotSegments(_, _)
RemoveDotSegments(segs, acc) ==
    IF segs = <<>> THEN acc
    ELSE LET seg == Head(segs)
             last == Len(segs) = 1
             next == CASE seg = DotDot -> ButLast(acc) \o (IF last THEN << <<>> >> ELSE <<>>)
                       [] seg = Dot -> acc \o (IF last THEN << <<>> >> ELSE <<>>)
                       [] OTHER -> acc \o <<seg>>
         IN  RemoveDotSegments(Tail(segs), next)

URLPathname(target) ==
    LET t == CutQuery(target)
        authority == Len(t) >= 2 /\ t[1] = "/" /\ t[2] = "/"
        path == IF authority THEN AfterHost(t)
                ELSE IF t # <<>> /\ Head(t) = "/" THEN t ELSE <<"/">> \o t
    IN  IF authority /\ (DropSlashes(t) = <<>>)
        THEN [throws |-> TRUE]
        ELSE [throws |-> FALSE,
              value |-> JoinSlash(RemoveDotSegments(Tail(Split(path)), <<>>))]

---------------------------------------------------------------------------
(* serveStatic (server.js:253-267) *)

STATIC_ROOT == <<"/", "w", "/", "a">>

\* The files of the machine. Two lie under STATIC_ROOT; "/w/ab" is a sibling
\* directory whose name starts with the root's.
Files ==
    { STATIC_ROOT \o <<"/", "math-solver", ".", "html">>,
      STATIC_ROOT \o <<"/", "s", "/", "app", ".", "js">>,
      <<"/", "w", "/", "a", "b", "/", "k">>,
      <<"/", "w", "/", "k">>,
      <<"/", "k">> }

\* path.resolve of one absolute path (POSIX): empty and "." segments are
\* dropped, ".." drops the last segment, no trailing "/".
RECURSIVE Normalize(_, _)
Normalize(segs, acc) ==
    IF segs = <<>> THEN acc
    ELSE LET seg == Head(segs)
         IN  Normalize(Tail(segs),
                       CASE seg = <<>> \/ seg = Dot -> acc
                         [] seg = DotDot -> ButLast(acc)
                         [] OTHER -> acc \o <<seg>>)

PathResolve(from, to) ==
    LET segs == Normalize(Split(IF to # <<>> /\ Head(to) = "/" THEN to
                                ELSE from \o <<"/">> \o to), <<>>)
    IN  IF segs = <<>> THEN <<"/">> ELSE JoinSlash(segs)

StaticFile(reqPath) == IF reqPath = <<"/">> THEN <<"/", "math-solver", ".", "html">> ELSE reqPath

StaticResolved(reqPath) == PathResolve(STATIC_ROOT, Dot \o StaticFile(reqPath))

\* mutant: the root is compared without its trailing separator
InsideRoot_NoSep(resolved) == StartsWith(resolved, PathResolve(STATIC_ROOT, <<>>))

\* line 258: the resolved path starts with the root and a separator
InsideRoot(resolved) == StartsWith(resolved, PathResolve(STATIC_ROOT, <<>>) \o <<"/">>)

\* lines 262-266: the callback of fs.readFile
ReadFileReply(file, resolved) ==
    IF resolved \in Files
    THEN Reply(200, [t |-> "file", v |-> resolved])
    ELSE Reply(404, ErrorPayload(<<"Not found: ">> \o file))

---------------------------------------------------------------------------
(* The state of one inbound request *)

NoCall == [state |-> "none"]
NoRes == [writeHeads |-> 0]

NewReq(method, target, doc) ==
    [ method |-> method, target |-> target, doc |-> doc,
      pathname |-> <<>>,
      route |-> "none",     \* the branch of requestHandler that took the request
      listening |-> FALSE,  \* readBody has registered its data/end/error listeners
      stream |-> "open",    \* the inbound body stream: open, ended, errored
      chunks |-> 0,         \* 'data' events delivered so far
      bytes |-> 0, body |-> 0, done |-> FALSE,   \* the locals of readBody
      destroyed |-> FALSE,  \* req.destroy() was called
      call |-> NoCall,      \* the outbound https request of groqRequest
      calls |-> 0,          \* outbound requests started for this request
      invoked |-> 0,        \* invocations of groqRequest for this request
      doneCalls |-> 0,      \* invocations of the onDone passed to groqRequest
      errorCalls |-> 0,     \* invocations of the onError passed to groqRequest
      reading |-> FALSE,    \* fs.readFile is pending
      fileReads |-> {},     \* the paths handed to fs.readFile
      file |-> <<>>,        \* `file` and `resolved` of serveStatic, which the
      resolved |-> <<>>,    \* callback of fs.readFile closes over
      res |-> NoRes,        \* the response: writeHead calls, status, payload
      crashed |-> FALSE ]   \* a callback of this request threw (uncaughtException)

\* res.writeHead(status, ...); res.end(payload). A second writeHead throws
\* ERR_HTTP_HEADERS_SENT and leaves the first response as it is.
sendJson(rq, reply) ==
    IF rq.res.writeHeads = 0
    THEN [rq EXCEPT !.res = [writeHeads |-> 1, status |-> reply.status,
                             payload |-> reply.payload]]
    ELSE [rq EXCEPT !.res.writeHeads = @ + 1, !.crashed = TRUE]

\* server.js:64-67
jsonError(rq, status, message) == sendJson(rq, Reply(status, ErrorPayload(message)))

Error(message) == [message |-> message]

---------------------------------------------------------------------------
(* groqRequest (server.js:93-127) *)

\* The callbacks are named by the route that passed them.
OnDone(rq, statusCode, data) ==
    IF rq.route = "models"
    THEN sendJson([rq EXCEPT !.doneCalls = @ + 1], ModelsOnDone(statusCode, data))
    ELSE sendJson([rq EXCEPT !.doneCalls = @ + 1], ChatOnDone(statusCode, data))

\* mutant: a failed outbound request is sent once more before the error is
\* reported
OnError_Retries(rq, err) ==
    IF rq.call.state # "none" /\ rq.calls < 2
    THEN [rq EXCEPT !.call.state = "pending", !.calls = @ + 1]
    ELSE IF rq.route = "models"
    THEN sendJson([rq EXCEPT !.errorCalls = @ + 1], ModelsOnError(err))
    ELSE sendJson([rq EXCEPT !.errorCalls = @ + 1], ChatOnError(err))

OnError(rq, err) ==
    IF rq.route = "models"
    THEN sendJson([rq EXCEPT !.errorCalls = @ + 1], ModelsOnError(err))
    ELSE sendJson([rq EXCEPT !.errorCalls = @ + 1], ChatOnError(err))

\* lines 94-96: without a key onError is called at once and nothing is sent;
\* lines 116-126: otherwise one https request is started.
groqRequest(rq, key, method, apiPath, body) ==
    IF key = <<>>
    THEN OnError([rq EXCEPT !.invoked = @ + 1], Error(MissingKeyMessage))
    ELSE [rq EXCEPT !.call = [state |-> "pending", method |-> method,
                              path |-> apiPath, body |-> body, timedOut |-> FALSE],
                    !.calls = @ + 1,
                    !.invoked = @ + 1]

\* server.js:129-130
listModels(rq, key) ==
    groqRequest([rq EXCEPT !.route = "models"], key, "GET",
                <<"/", "openai", "/", "v1", "/", "models">>, Null)

\* server.js:169-210: a TypeError of the map leaves the handler before groqRequest
doGroqChat(rq, key, model, messages) ==
    IF ChatRequestBody(model, messages).throws
    THEN [rq EXCEPT !.crashed = TRUE]
    ELSE groqRequest(rq, key, "POST",
                     <<"/", "openai", "/", "v1", "/", "chat", "/", "completions">>,
                     ChatRequestBody(model, messages).value)

\* mutant: the `model` check of line 245 is missing
proxyGroqChat_NoModelCheck(rq, key, body) ==
    LET parsed == JSONparse(body)
    IN  IF ~parsed.ok
        THEN jsonError(rq, 400, <<"Invalid JSON body">>)
        ELSE IF ~IsArray(Get(parsed.value, "messages"))
        THEN jsonError(rq, 400, <<"Invalid payload. Expected { model, messages[] }">>)
        ELSE doGroqChat(rq, key, Get(parsed.value, "model"), Get(parsed.value, "messages").v)

\* server.js:239-249
proxyGroqChat(rq, key, body) ==
    LET parsed == JSONparse(body)
    IN  IF ~parsed.ok
        THEN jsonError(rq, 400, <<"Invalid JSON body">>)
        ELSE IF ~Truthy(Get(parsed.value, "model")) \/ ~IsArray(Get(parsed.value, "messages"))
        THEN jsonError(rq, 400, <<"Invalid payload. Expected { model, messages[] }">>)
        ELSE doGroqChat(rq, key, Get(parsed.value, "model"), Get(parsed.value, "messages").v)

---------------------------------------------------------------------------
(* readBody (server.js:69-89) *)

\* The text accumulated in `body`: the request's document once bytes of it
\* have arrived, the empty text (no JSON) before.
BodyText(rq) == IF rq.body = 0 THEN NotJson(<<>>) ELSE rq.doc

\* mutant: the `done` guard of line 77 is missing
ReadBodyOnData_NoDoneGuard(rq, limit, len) ==
    LET counted == [rq EXCEPT !.bytes = @ + len]
    IN  IF counted.bytes > limit
        THEN LET answered == jsonError([counted EXCEPT !.done = TRUE], 413,
                                       <<"Request body too large (limit ", "20000000",
                                         " bytes)">>)
             IN  IF answered.crashed THEN answered
                 ELSE [answered EXCEPT !.destroyed = TRUE]
        ELSE [counted EXCEPT !.body = @ + len]

\* lines 74-85
ReadBodyOnData(rq, limit, len) ==
    LET counted == [rq EXCEPT !.bytes = @ + len]
    IN  IF counted.bytes > limit
        THEN IF ~counted.done
             THEN LET answered == jsonError([counted EXCEPT !.done = TRUE], 413,
                                            <<"Request body too large (limit ", "20000000",
                                              " bytes)">>)
                  IN  IF answered.crashed THEN answered
                      ELSE [answered EXCEPT !.destroyed = TRUE]
             ELSE counted
        ELSE [counted EXCEPT !.body = @ + len]

\* line 87
ReadBodyOnEnd(rq, key) ==
    IF ~rq.done THEN proxyGroqChat(rq, key, BodyText(rq)) ELSE rq

\* mutant: the 'error' listener does not test `done`
ReadBodyOnError_NoDoneGuard(rq) ==
    jsonError(rq, 400, <<"Failed to read request body">>)

\* line 88
ReadBodyOnError(rq) ==
    IF ~rq.done THEN jsonError(rq, 400, <<"Failed to read request body">>) ELSE rq

---------------------------------------------------------------------------
(* serveStatic (server.js:253-262) and requestHandler (server.js:271-308) *)

serveStatic(rq, reqPath) ==
    IF ~InsideRoot(StaticResolved(reqPath))
    THEN jsonError([rq EXCEPT !.route = "static"], 403, <<"Forbidden">>)
    ELSE [rq EXCEPT !.route = "static", !.reading = TRUE,
                    !.fileReads = @ \cup {StaticResolved(reqPath)},
                    !.file = StaticFile(reqPath),
                    !.resolved = StaticResolved(reqPath)]

\* line 303: pathname.startsWith('/api/')
IsApiPath(pathname) == StartsWith(pathname, <<"/", "api", "/">>)

\* The uptimeSec field of the health payload is a clock reading, left out.
requestHandler(rq, key) ==
    LET url == URLPathname(rq.target)
        pathname == url.value
        at == [rq EXCEPT !.pathname = pathname]
    IN  IF url.throws THEN [rq EXCEPT !.crashed = TRUE]
        ELSE IF rq.method = "OPTIONS"
        THEN sendJson([at EXCEPT !.route = "options"], Reply(204, Undefined))
        ELSE IF rq.method = "GET" /\ pathname = <<"/", "health">>
        THEN sendJson([at EXCEPT !.route = "health"],
                      Reply(200, JObj([ok |-> JBool(TRUE),
                                       apiKey |-> JStr(IF key # <<>> THEN <<"set">>
                                                       ELSE <<"MISSING">>)])))
        ELSE IF rq.method = "GET" /\ pathname = <<"/", "api", "/", "models">>
        THEN listModels(at, key)
        ELSE IF rq.method = "POST" /\ pathname = <<"/", "api", "/", "chat">>
        THEN [at EXCEPT !.route = "chat", !.listening = TRUE]
        ELSE IF IsApiPath(pathname)
        THEN jsonError([at EXCEPT !.route = "api404"], 404,
                       <<"Unknown API route: ", rq.method, " ">> \o pathname)
        ELSE serveStatic(at, pathname)

---------------------------------------------------------------------------
(* Inputs of the server: what a client and the provider may send *)

Methods == {"OPTIONS", "GET", "POST"}

ChatTarget == <<"/", "api", "/", "chat">>
ModelsTarget == <<"/", "api", "/", "models">>

Targets ==
    { <<"/">>, <<"/", "health">>, ModelsTarget, ChatTarget,
      <<"/", "api", "/", "x">>,
      <<"/", ".", ".", "/", "k">>,     \* /../k
      <<"/", "/">> }                   \* "//": no host, new URL throws

UserMessage == JObj([role |-> JStr(<<"user">>), content |-> JStr(<<"2+2">>)])

ValidDoc == Json(JObj([model |-> JStr(<<"x">>), messages |-> JArr(<<UserMessage>>)]))

ChatDocs ==
    { NotJson(<<"{oops">>),
      Json(JObj([messages |-> JArr(<<UserMessage>>)])),
      Json(JObj([model |-> JStr(<<"x">>), messages |-> JStr(<<"hi">>)])),
      ValidDoc,
      Json(JObj([model |-> JStr(<<"x">>), messages |-> JArr(<<JStr(<<"hi">>)>>)])),
      Json(JObj([model |-> JStr(<<"x">>), messages |-> JArr(<<Null>>)])) }

NoDoc == NotJson(<<>>)

DocsOf(method, target) ==
    IF method = "POST" /\ CutQuery(target) = ChatTarget THEN ChatDocs ELSE {NoDoc}

ChunkLens == {1, MAX_CHAT_BYTES}

ChatOk == Json(JObj([choices |-> JArr(<<JObj([message |-> JObj([content |-> JStr(<<"4">>)])])>>)]))
Boom == Json(JObj([error |-> JObj([message |-> JStr(<<"boom">>)])]))
Listing == Json(JObj([data |-> JArr(<<JObj([id |-> JStr(<<"llama">>)]),
                                      JObj([id |-> JStr(<<"whisper", "-large">>)])>>)]))

\* <<status, body>> of the responses the provider gives in the server runs
Responses ==
    { <<200, ChatOk>>, <<200, Listing>>, <<400, Boom>>, <<500, Boom>>,
      <<502, NotJson(<<"<html>">>)>> }

NetworkErrors == { Error(<<"connect ECONNREFUSED">>) }

---------------------------------------------------------------------------
(* The server *)

Init ==
    /\ GROQ_API_KEY \in { <<>>, <<"gsk_key">> }
    /\ requestCounter = 0
    /\ reqs = <<>>
    /\ arg = NoValue
    /\ ret = NoValue

Unit == UNCHANGED <<arg, ret>>
Config == UNCHANGED <<GROQ_API_KEY, requestCounter>>

\* An inbound request: requestHandler runs to its first return.
Request ==
    /\ requestCounter < MaxReq
    /\ \E method \in Methods, target \in Targets :
         \E doc \in DocsOf(method, target) :
            reqs' = Append(reqs, requestHandler(NewReq(method, target, doc), GROQ_API_KEY))
    /\ requestCounter' = requestCounter + 1
    /\ UNCHANGED GROQ_API_KEY
    /\ Unit

\* The events of the inbound body stream: 'data' any number of times, then
\* 'end' or 'error', one of the two and once (a request stream that has
\* ended emits no error). The listeners of readBody stay registered after
\* the req.destroy() of line 80, and whether the runtime still delivers the
\* events of such a stream depends on its version: the model delivers them.
BodyData(r) ==
    /\ reqs[r].listening /\ reqs[r].stream = "open" /\ reqs[r].chunks < MaxChunks
    /\ \E len \in ChunkLens :
         reqs' = [reqs EXCEPT ![r] = ReadBodyOnData([@ EXCEPT !.chunks = @ + 1],
                                                    MAX_CHAT_BYTES, len)]
    /\ Config /\ Unit

BodyEnd(r) ==
    /\ reqs[r].listening /\ reqs[r].stream = "open"
    /\ reqs' = [reqs EXCEPT ![r] = ReadBodyOnEnd([@ EXCEPT !.stream = "ended"], GROQ_API_KEY)]
    /\ Config /\ Unit

BodyError(r) ==
    /\ reqs[r].listening /\ reqs[r].stream = "open"
    /\ reqs' = [reqs EXCEPT ![r] = ReadBodyOnError([@ EXCEPT !.stream = "errored"])]
    /\ Config /\ Unit

\* The events of the outbound request (server.js:116-123). The runtime emits
\* 'end' on a response only while its request is neither destroyed nor
\* failed, removes the timeout listener of a request when its response
\* ends, and emits 'error' once, for a request that has not completed.

\* the response head arrived: the callback of https.request registers the
\* 'data' and 'end' listeners of the response (lines 116-118)
GroqResponseHead(r) ==
    /\ reqs[r].call.state = "pending"
    /\ reqs' = [reqs EXCEPT ![r].call.state = "receiving"]
    /\ Config /\ Unit

\* 'end' of the response, line 119
GroqResponse(r) ==
    /\ reqs[r].call.state = "receiving"
    /\ \E resp \in Responses :
         reqs' = [reqs EXCEPT ![r] = OnDone([@ EXCEPT !.call.state = "done"], resp[1], resp[2])]
    /\ Config /\ Unit

\* 'error' of the request (no connection, or a reset while the response is
\* received), line 123
GroqError(r) ==
    /\ reqs[r].call.state \in {"pending", "receiving"}
    /\ \E err \in NetworkErrors :
         reqs' = [reqs EXCEPT ![r] = OnError([@ EXCEPT !.call.state = "failed"], err)]
    /\ Config /\ Unit

\* mutant: the 'timeout' listener does not destroy the request
GroqTimeout_NoDestroy(r) ==
    /\ reqs[r].call.state \in {"pending", "receiving"}
    /\ ~reqs[r].call.timedOut
    /\ reqs' = [reqs EXCEPT ![r].call.timedOut = TRUE]
    /\ Config /\ Unit

\* 'timeout': req.destroy(new Error(...)), line 122. The socket's idle timer
\* also runs while a response is being received.
GroqTimeout(r) ==
    /\ reqs[r].call.state \in {"pending", "receiving"}
    /\ reqs' = [reqs EXCEPT ![r].call.state = "timedout", ![r].call.timedOut = TRUE]
    /\ Config /\ Unit

\* the 'error' event of the destroyed request, line 123
GroqTimeoutError(r) ==
    /\ reqs[r].call.state = "timedout"
    /\ reqs' = [reqs EXCEPT ![r] = OnError([@ EXCEPT !.call.state = "failed"],
                                           Error(TimeoutMessage))]
    /\ Config /\ Unit

\* the callback of fs.readFile, lines 262-266
ReadFileDone(r) ==
    /\ reqs[r].reading
    /\ reqs' = [reqs EXCEPT ![r] = sendJson([@ EXCEPT !.reading = FALSE],
                                            ReadFileReply(@.file, @.resolved))]
    /\ Config /\ Unit

Next ==
    \/ Request
    \/ \E r \in DOMAIN reqs : BodyData(r)
    \/ \E r \in DOMAIN reqs : BodyEnd(r)
    \/ \E r \in DOMAIN reqs : BodyError(r)
    \/ \E r \in DOMAIN reqs : GroqResponseHead(r)
    \/ \E r \in DOMAIN reqs : GroqResponse(r)
    \/ \E r \in DOMAIN reqs : GroqError(r)
    \/ \E r \in DOMAIN reqs : GroqTimeout(r)
    \/ \E r \in DOMAIN reqs : GroqTimeoutError(r)
    \/ \E r \in DOMAIN reqs : ReadFileDone(r)

Spec == Init /\ [][Next]_vars

\* What the runtime guarantees of req.destroy(err): the destroyed outbound
\* request emits its 'error'.
AbortFairness ==
    \A r \in 1..MaxReq : WF_vars(r \in DOMAIN reqs /\ GroqTimeoutError(r))

SpecAbort == Spec /\ AbortFairness

\* What the runtime and the peers guarantee besides: an inbound body stream
\* that is listened to ends or fails, an outbound request gets its response
\* head, an error or its timeout, a response that is being received ends,
\* fails or times out, a file read calls back.
Fairness ==
    /\ AbortFairness
    /\ \A r \in 1..MaxReq :
          /\ WF_vars(r \in DOMAIN reqs /\ (BodyEnd(r) \/ BodyError(r)))
          /\ WF_vars(r \in DOMAIN reqs
                     /\ (GroqResponseHead(r) \/ GroqResponse(r) \/ GroqError(r)
                            \/ GroqTimeout(r)))
          /\ WF_vars(r \in DOMAIN reqs /\ ReadFileDone(r))

FairSpec == Spec /\ Fairness

---------------------------------------------------------------------------
(* The units, each run on inputs drawn from a bounded set: arg is the input, *)
(* ret the result. The server's variables stay as they start.                *)

Idle == GROQ_API_KEY = <<"gsk_key">> /\ requestCounter = 0 /\ reqs = <<>>

\* all sequences over set S of length at most n
RECURSIVE SeqsUpTo(_, _)
SeqsUpTo(S, n) ==
    IF n = 0 THEN { <<>> }
    ELSE SeqsUpTo(S, n - 1) \cup { Append(q, x) : q \in SeqsUpTo(S, n - 1), x \in S }

(* -- the reshaping of one chat message -- *)

Attachments ==
    { JStr(<<>>), JStr(<<"AAA">>),
      JObj([data |-> JStr(<<"BBB">>), mime |-> JStr(<<"image/jpeg">>)]),
      JObj([data |-> JStr(<<"CCC">>)]),
      JObj([data |-> JStr(<<>>), mime |-> JStr(<<"image/gif">>)]),
      Null }

Contents == { JStr(<<>>), JStr(<<"2+2">>) }

Messages ==
    LET role == JStr(<<"user">>)
    IN  { JObj([role |-> role, content |-> c, images |-> JArr(imgs)]) :
              c \in Contents, imgs \in SeqsUpTo(Attachments, MaxImages) }
        \cup { JObj([role |-> role, images |-> JArr(imgs)]) :
                  imgs \in SeqsUpTo(Attachments, MaxImages) }
        \cup { JObj([role |-> role, content |-> c]) : c \in Contents }
        \cup { Null, JStr(<<"hi">>) }

InitReshape == Idle /\ arg \in Messages /\ ret = NoValue

Reshape ==
    /\ ret = NoValue
    /\ ret' = ReshapeMessage(arg)
    /\ UNCHANGED <<GROQ_API_KEY, requestCounter, reqs, arg>>

SpecReshape == InitReshape /\ [][Reshape]_vars

(* -- the callbacks of doGroqChat and of listModels -- *)

Statuses == { 200, 201, 302, 400, 401, 429, 500, 503 }

Choice(message) == Json(JObj([choices |-> JArr(<<JObj([message |-> message])>>)]))

ChatBodies ==
    { NotJson(<<"<html>">>), NotJson(<<>>),
      Json(Null), Json(EmptyObj), Json(JStr(<<"oops">>)),
      Boom,
      Json(JObj([error |-> JObj([message |-> JStr(<<"boom">>)]), message |-> JStr(<<"top">>)])),
      Json(JObj([error |-> JStr(<<"boom">>)])),
      Json(JObj([error |-> JObj([message |-> JStr(<<>>)])])),
      Json(JObj([message |-> JStr(<<"top">>)])),
      ChatOk,
      Choice(JObj([content |-> JStr(<<>>)])),
      Choice(JObj([content |-> Null])),
      Choice(JObj([role |-> JStr(<<"assistant">>)])),
      Choice(Null),
      Json(JObj([choices |-> JArr(<<>>)])),
      Json(JObj([choices |-> JArr(<<JObj([message |-> JObj([content |-> JStr(<<"4">>)])]),
                                    JObj([message |-> JObj([content |-> JStr(<<"5">>)])])>>)])) }

TransportErrors ==
    { Error(MissingKeyMessage), Error(TimeoutMessage),
      Error(<<"connect ECONNREFUSED">>), Error(<<"getaddrinfo ENOTFOUND ", "api.groq.com">>),
      Error(<<"socket hang up">>) }

Outcome(status, data) == [kind |-> "response", status |-> status, data |-> data]
Failure(err) == [kind |-> "error", err |-> err]

ChatOutcomes ==
    { Outcome(st, d) : st \in Statuses, d \in ChatBodies }
    \cup { Failure(e) : e \in TransportErrors }

InitChatReply == Idle /\ arg \in ChatOutcomes /\ ret = NoValue

ChatDone ==
    /\ ret = NoValue /\ arg.kind = "response"
    /\ ret' = ChatOnDone(arg.status, arg.data)
    /\ UNCHANGED <<GROQ_API_KEY, requestCounter, reqs, arg>>

ChatFailed ==
    /\ ret = NoValue /\ arg.kind = "error"
    /\ ret' = ChatOnError(arg.err)
    /\ UNCHANGED <<GROQ_API_KEY, requestCounter, reqs, arg>>

SpecChatReply == InitChatReply /\ [][ChatDone \/ ChatFailed]_vars

ModelEntries ==
    { JObj([id |-> JStr(<<"llama">>)]),
      JObj([id |-> JStr(<<"gemma">>), owned_by |-> JStr(<<"Google">>)]),
      JObj([id |-> JStr(<<"whisper", "-large">>)]),
      JObj([id |-> JStr(<<"Whisper">>)]),
      JObj([id |-> JStr(<<"play", "tts">>)]),
      JObj([id |-> JStr(<<"nomic-", "embed", "-text">>)]),
      JObj([id |-> JStr(<<"llama-", "guard">>)]),
      JObj([id |-> JStr(<<"llama-", "vision">>)]),
      JObj([id |-> JStr(<<>>)]),
      JObj([id |-> JNum(<<"7">>)]),
      EmptyObj,
      Null }

ModelBodies ==
    { Json(JObj([object |-> JStr(<<"list">>), data |-> JArr(entries)])) :
          entries \in SeqsUpTo(ModelEntries, MaxModels) }
    \cup { NotJson(<<"<html>">>), NotJson(<<>>), Json(Null), Json(EmptyObj),
           Json(JObj([data |-> JStr(<<"llama">>)])), Boom }

ModelOutcomes ==
    { Outcome(st, d) : st \in Statuses, d \in ModelBodies }
    \cup { Failure(e) : e \in TransportErrors }

InitModels == Idle /\ arg \in ModelOutcomes /\ ret = NoValue

ModelsDone ==
    /\ ret = NoValue /\ arg.kind = "response"
    /\ ret' = ModelsOnDone(arg.status, arg.data)
    /\ UNCHANGED <<GROQ_API_KEY, requestCounter, reqs, arg>>

ModelsFailed ==
    /\ ret = NoValue /\ arg.kind = "error"
    /\ ret' = ModelsOnError(arg.err)
    /\ UNCHANGED <<GROQ_API_KEY, requestCounter, reqs, arg>>

SpecModels == InitModels /\ [][ModelsDone \/ ModelsFailed]_vars

(* -- serveStatic called with any path -- *)

Segments ==
    { DotDot, Dot, <<>>, <<"k">>, <<"w">>, <<"a">>, <<"a", "b">>, <<"s">>,
      <<"app", ".", "js">>, <<"math-solver", ".", "html">> }

ReqPaths == { JoinSlash(segs) : segs \in SeqsUpTo(Segments, MaxSegs) \ { <<>> } }

InitStatic == Idle /\ arg \in ReqPaths /\ ret = NoValue

\* serveStatic(reqId, reqPath, res) runs to its return
StaticCall ==
    /\ reqs = <<>>
    /\ reqs' = << serveStatic([NewReq("GET", arg, NoDoc) EXCEPT !.pathname = arg], arg) >>
    /\ UNCHANGED <<GROQ_API_KEY, requestCounter, arg, ret>>

NextStatic ==
    \/ StaticCall
    \/ \E r \in DOMAIN reqs : ReadFileDone(r)

SpecStatic == InitStatic /\ [][NextStatic]_vars

(* -- the start of the process: the .env loader, then lines 20-21 -- *)

KeyName == <<"GROQ_API_KEY">>
PortName == <<"PORT">>

EnvLines ==
    { <<"GROQ_API_KEY", "=", "gsk_file">>,
      <<"GROQ_API_KEY", "=">>,
      <<" ", "PORT", " ", "=", " ", "8", "0", " ">>,
      <<"PORT", "=", "abc">>,
      <<"TOKEN", "=", "a", "=", "b">>,
      <<"# comment">>,
      <<"=", "x">>,
      <<>> }

EnvFiles ==
    { NoFile } \cup { EnvFile(JoinWith(lines, "\n")) : lines \in SeqsUpTo(EnvLines, MaxLines) }

\* the environment the process is started in
ProcessEnvs ==
    { [k \in names |-> IF k = KeyName THEN <<"gsk_env">> ELSE <<"9", "0", "9", "0">>] :
          names \in SUBSET {KeyName, PortName} }

InitEnv ==
    /\ GROQ_API_KEY = <<>> /\ requestCounter = 0 /\ reqs = <<>>
    /\ arg \in { [env |-> e, file |-> f] : e \in ProcessEnvs, f \in EnvFiles }
    /\ ret = NoValue

\* server.js:6-21 run once
Startup ==
    /\ ret = NoValue
    /\ ret' = [env |-> LoadEnv(arg.env, arg.file), PORT |-> PORT(LoadEnv(arg.env, arg.file))]
    /\ GROQ_API_KEY' = ApiKeyOf(LoadEnv(arg.env, arg.file))
    /\ UNCHANGED <<requestCounter, reqs, arg>>

SpecEnv == InitEnv /\ [][Startup]_vars

---------------------------------------------------------------------------
(* Properties *)

Answered(rq, status) == rq.res.writeHeads = 1 /\ rq.res.status = status

\* the message of an { error: { message } } payload
MessageOf(payload) == Get(Get(payload, "error"), "message").v

\* readBody handed the accumulated body to proxyGroqChat
Proxied(rq) == rq.route = "chat" /\ rq.stream = "ended" /\ ~rq.done

\* A chat body that is no JSON, or has no `model`, or whose `messages` is no array.
InvalidChatBody(raw) ==
    \/ ~raw.parses
    \/ raw.value.t # "object"
    \/ "model" \notin DOMAIN raw.value.v
    \/ "messages" \notin DOMAIN raw.value.v
    \/ raw.value.v["messages"].t # "array"

\* C1: every POST /api/chat body that is not valid JSON, or that has no `model`
\* or whose `messages` is not a sequence, is answered 400 by the chat proxy
\* handler, and no outbound call is made for that request.
C1_InvalidBodyIs400 ==
    \A r \in DOMAIN reqs :
        (Proxied(reqs[r]) /\ InvalidChatBody(BodyText(reqs[r])))
        => /\ Answered(reqs[r], 400)
           /\ reqs[r].calls = 0
           /\ reqs[r].call = NoCall

\* a JSON body without `model` was received and answered 400
C1_Witness ==
    \E r \in DOMAIN reqs :
        /\ Proxied(reqs[r]) /\ reqs[r].body > 0
        /\ reqs[r].doc.parses /\ InvalidChatBody(reqs[r].doc)
        /\ Answered(reqs[r], 400)

Overflowed(rq) == rq.bytes > MAX_CHAT_BYTES

\* C4: once the bytes received exceed the ceiling the inbound connection is
\* destroyed and one 413 is written, and no later data, end or error event
\* writes again or adds to the body.
C4_OverflowIs413Once ==
    /\ [](\A r \in DOMAIN reqs :
            Overflowed(reqs[r])
            => /\ Answered(reqs[r], 413)
               /\ reqs[r].destroyed
               /\ ~reqs[r].crashed
               /\ reqs[r].calls = 0)
    /\ [][\A r \in DOMAIN reqs :
            Overflowed(reqs[r])
            => /\ reqs'[r].res = reqs[r].res
               /\ reqs'[r].body = reqs[r].body]_vars

\* data arrived after the overflow, then the stream ended
C4_Witness ==
    \E r \in DOMAIN reqs :
        /\ reqs[r].bytes > MAX_CHAT_BYTES + MAX_CHAT_BYTES
        /\ reqs[r].stream = "ended"
        /\ Answered(reqs[r], 413)

\* A chat body that passes the checks of proxyGroqChat and whose messages
\* are all objects.
ValidChatBody(raw) ==
    /\ ~InvalidChatBody(raw)
    /\ raw.value.v["model"].t = "string" /\ raw.value.v["model"].v # <<>>
    /\ \A i \in 1..Len(raw.value.v["messages"].v) : raw.value.v["messages"].v[i].t = "object"

\* C6: without an API key no outbound request is ever started, and a chat
\* request that gets as far as the upstream client is answered 401 with the
\* configuration error; a chat request whose outbound request failed
\* (connection error, timeout) is answered 502; a 401 that answers a request
\* with no outbound call means the key is missing.
C6_MissingKey401Else502 ==
    \A r \in DOMAIN reqs :
        /\ GROQ_API_KEY = <<>> => reqs[r].calls = 0 /\ reqs[r].call = NoCall
        /\ (GROQ_API_KEY = <<>> /\ Proxied(reqs[r]) /\ ValidChatBody(BodyText(reqs[r])))
           => /\ Answered(reqs[r], 401)
              /\ MessageOf(reqs[r].res.payload) = MissingKeyMessage
        /\ (reqs[r].route = "chat" /\ reqs[r].call.state = "failed")
           => /\ Answered(reqs[r], 502)
              /\ GROQ_API_KEY # <<>>
        /\ (reqs[r].route = "chat" /\ reqs[r].calls = 0 /\ Answered(reqs[r], 401))
           => GROQ_API_KEY = <<>>

\* a valid chat request arrived with no key set and was answered 401
C6_Witness ==
    \E r \in DOMAIN reqs :
        /\ GROQ_API_KEY = <<>> /\ Proxied(reqs[r]) /\ ValidChatBody(BodyText(reqs[r]))
        /\ Answered(reqs[r], 401) /\ reqs[r].calls = 0

\* the request target was accepted by the URL constructor of line 274
Parsed(rq) == ~URLPathname(rq.target).throws

UnknownApiRoute(rq) ==
    /\ rq.method # "OPTIONS"
    /\ StartsWith(rq.pathname, <<"/", "api", "/">>)
    /\ ~(rq.method = "GET" /\ rq.pathname = ModelsTarget)
    /\ ~(rq.method = "POST" /\ rq.pathname = ChatTarget)

\* no body listener, no outbound call, no file read
Untouched(rq) ==
    /\ ~rq.listening /\ rq.chunks = 0
    /\ rq.calls = 0 /\ rq.call = NoCall
    /\ ~rq.reading /\ rq.fileReads = {}

\* C9: every OPTIONS request is answered 204 whatever its path, and every
\* other request under /api/ that is neither GET /api/models nor POST
\* /api/chat is answered 404 with an error that names its method and path;
\* neither reads the body, calls upstream or reads a file.
C9_OptionsAlways204 ==
    \A r \in DOMAIN reqs :
        /\ reqs[r].method = "OPTIONS"
           => Answered(reqs[r], 204) /\ Untouched(reqs[r])
        /\ UnknownApiRoute(reqs[r])
           => /\ Answered(reqs[r], 404)
              /\ Includes(MessageOf(reqs[r].res.payload),
                          <<reqs[r].method, " ">> \o reqs[r].pathname)
              /\ Untouched(reqs[r])

\* The same for the requests whose target the URL constructor accepts.
ParsedTargetsRouted ==
    \A r \in DOMAIN reqs :
        /\ (Parsed(reqs[r]) /\ reqs[r].method = "OPTIONS")
           => Answered(reqs[r], 204) /\ Untouched(reqs[r])
        /\ (Parsed(reqs[r]) /\ UnknownApiRoute(reqs[r]))
           => /\ Answered(reqs[r], 404)
              /\ Includes(MessageOf(reqs[r].res.payload),
                          <<reqs[r].method, " ">> \o reqs[r].pathname)
              /\ Untouched(reqs[r])

---------------------------------------------------------------------------
(* Properties of the chat callbacks, under SpecChatReply *)

Ran == ret # NoValue

GenericMessage == <<"Groq returned an error">>

\* v when it is a non-empty string, else <<>>
TextOf(v) == IF v.t = "string" THEN v.v ELSE <<>>

HasField(v, k) == v.t = "object" /\ k \in DOMAIN v.v

\* C2 as stated: whatever the body of a response with status >= 400, the
\* status returned is the upstream status, and the message is the upstream
\* error's when the body has an error field, the generic one when it has none.
C2_Original ==
    (Ran /\ arg.kind = "response" /\ arg.status >= 400)
    => /\ ret.status = arg.status
       /\ LET json == IF arg.data.parses THEN arg.data.value ELSE Undefined
              fromError == TextOf(Get(Get(json, "error"), "message"))
          IN  /\ fromError # <<>>
                 => MessageOf(ret.payload) = <<"Groq error: ">> \o fromError
              /\ ~HasField(json, "error")
                 => MessageOf(ret.payload) = <<"Groq error: ">> \o GenericMessage

\* C2 amended: a response with status >= 400 whose body is JSON is answered
\* with the upstream status and the message "Groq error: " followed by the
\* body's error.message when that is a non-empty string, else by the body's
\* top-level message when that is a non-empty string, else by the generic
\* message; a body that is no JSON is answered 502 whatever the status.
C2_JsonErrorPassesStatus ==
    (Ran /\ arg.kind = "response" /\ arg.status >= 400)
    => IF arg.data.parses
       THEN LET fromError == TextOf(Get(Get(arg.data.value, "error"), "message"))
                fromTop == TextOf(Get(arg.data.value, "message"))
            IN  /\ ret.status = arg.status
                /\ MessageOf(ret.payload) =
                     <<"Groq error: ">> \o (IF fromError # <<>> THEN fromError
                                            ELSE IF fromTop # <<>> THEN fromTop
                                            ELSE GenericMessage)
       ELSE ret.status = 502

\* the stub scenario: 500 {"error":{"message":"boom"}} came back as 500 "Groq error: boom"
C2_Witness ==
    /\ Ran /\ arg = Outcome(500, Boom)
    /\ ret = Reply(500, ErrorPayload(<<"Groq error: ", "boom">>))

\* C8: a response with status < 400 and a JSON body is answered 200 {text}
\* with text = choices[0].message.content exactly when that is a non-empty
\* string, and 502 when it is absent or empty.
C8_TextOr502 ==
    (Ran /\ arg.kind = "response" /\ arg.status < 400 /\ arg.data.parses)
    => LET content == Get(Get(Get0(Get(arg.data.value, "choices")), "message"), "content")
       IN  IF TextOf(content) # <<>>
           THEN ret = Reply(200, JObj([text |-> content]))
           ELSE ret.status = 502 /\ HasField(ret.payload, "error")

\* the stub scenario: {"choices":[{"message":{"content":"4"}}]} came back as {"text":"4"}
C8_Witness ==
    /\ Ran /\ arg = Outcome(200, ChatOk)
    /\ ret = Reply(200, JObj([text |-> JStr(<<"4">>)]))

---------------------------------------------------------------------------
(* Properties of the model listing, under SpecModels *)

FallbackReply == Reply(200, JObj([models |-> GROQ_MODELS_FALLBACK]))

\* C3 as stated: a transport error, a status outside 200..299 or a body that
\* is no JSON is answered 200 with the fallback list, and no answer is an error.
C3_Original ==
    Ran => /\ ret.status = 200
           /\ (\/ arg.kind = "error"
               \/ arg.status < 200 \/ arg.status > 299
               \/ ~arg.data.parses)
              => ret = FallbackReply

\* C3 amended: every answer is 200, and a transport error (the missing key
\* among them), a status >= 400 or a body that is no JSON is answered with
\* exactly the fallback list.
C3_FailureIsFallback ==
    Ran => /\ ret.status = 200
           /\ (\/ arg.kind = "error"
               \/ arg.status >= 400
               \/ ~arg.data.parses)
              => ret = FallbackReply

\* the missing key was answered with the fallback list
C3_Witness ==
    Ran /\ arg = Failure(Error(MissingKeyMessage)) /\ ret = FallbackReply

\* the entry survives the filter: its id is a non-empty string with none of
\* the four fragments in it
Survives(e) ==
    /\ HasField(e, "id") /\ TextOf(e.v["id"]) # <<>>
    /\ \A i \in 1..Len(e.v["id"].v) : e.v["id"].v[i] \notin {"whisper", "tts", "embed", "guard"}

\* C10: a listing with status < 400 and a JSON body is answered with the
\* surviving entries as {name: id}, in upstream order, or with the fallback
\* list when none survives; the list returned is never empty.
C10_FilteredInOrder ==
    (Ran /\ arg.kind = "response" /\ arg.status < 400 /\ arg.data.parses)
    => LET data == Get(arg.data.value, "data")
           kept == SelectSeq(IF data.t = "array" THEN data.v ELSE <<>>, Survives)
           names == [i \in 1..Len(kept) |-> JObj([name |-> kept[i].v["id"]])]
       IN  /\ ret = Reply(200, JObj([models |-> IF kept = <<>> THEN GROQ_MODELS_FALLBACK
                                                 ELSE JArr(names)]))
           /\ Len(Get(ret.payload, "models").v) > 0

\* of "Whisper", "whisper-large", "llama" the first and the last came back
C10_Witness ==
    /\ Ran /\ arg.kind = "response" /\ arg.status = 200 /\ arg.data.parses
    /\ Get(arg.data.value, "data") =
         JArr(<< JObj([id |-> JStr(<<"Whisper">>)]), JObj([id |-> JStr(<<"whisper", "-large">>)]) >>)
    /\ Get(ret.payload, "models") = JArr(<< JObj([name |-> JStr(<<"Whisper">>)]) >>)

---------------------------------------------------------------------------
(* Properties of the message reshaping, under SpecReshape *)

\* the data and the mime type of an attachment: a string is its own data
AttData(img) ==
    IF img.t = "string" THEN img.v
    ELSE IF HasField(img, "data") THEN TextOf(img.v["data"]) ELSE <<>>

AttMime(img) ==
    IF HasField(img, "mime") /\ TextOf(img.v["mime"]) # <<>>
    THEN img.v["mime"].v ELSE <<"image/png">>

HasData(img) == AttData(img) # <<>>

HasDataImage(m) ==
    /\ HasField(m, "images") /\ m.v["images"].t = "array"
    /\ \E i \in 1..Len(m.v["images"].v) : HasData(m.v["images"].v[i])

\* C5: the content of a reshaped message that had an attachment with data is
\* a non-empty list: one text block first exactly when the original content
\* was a non-empty text, then one image block per attachment with data, in
\* the attachments' order, each with the URL data:<mime>;base64,<data>, the
\* mime type being image/png when the attachment names none.
C5_BlocksInOrder ==
    (Ran /\ HasDataImage(arg))
    => /\ ~ret.throws
       /\ LET c == Get(ret.value, "content")
              kept == SelectSeq(arg.v["images"].v, HasData)
              hasText == HasField(arg, "content") /\ TextOf(arg.v["content"]) # <<>>
              k == IF hasText THEN 1 ELSE 0
          IN  /\ c.t = "array"
              /\ Len(c.v) = k + Len(kept)
              /\ Len(c.v) > 0
              /\ hasText => c.v[1] = JObj([type |-> JStr(<<"text">>),
                                           text |-> arg.v["content"]])
              /\ \A j \in 1..Len(kept) :
                    c.v[k + j] =
                      JObj([type |-> JStr(<<"image_url">>),
                            image_url |->
                              JObj([url |-> JStr(<<"data:">> \o AttMime(kept[j])
                                                 \o <<";base64,">> \o AttData(kept[j]))])])

\* "2+2" with an empty attachment and a jpeg came back as a text block and one image block
C5_Witness ==
    /\ Ran /\ HasDataImage(arg)
    /\ Get(arg, "content") = JStr(<<"2+2">>)
    /\ Get(arg, "images") =
         JArr(<< JStr(<<>>), JObj([data |-> JStr(<<"BBB">>), mime |-> JStr(<<"image/jpeg">>)]) >>)
    /\ Len(Get(ret.value, "content").v) = 2
    /\ Get(Get(Get(ret.value, "content").v[2], "image_url"), "url")
         = JStr(<<"data:", "image/jpeg", ";base64,", "BBB">>)

---------------------------------------------------------------------------
(* Properties of serveStatic, under SpecStatic *)

UnderRoot(p) == StartsWith(p, STATIC_ROOT \o <<"/">>)

\* the request path resolves to a place that is neither the root nor under it
Escapes(reqPath) ==
    StaticResolved(reqPath) # STATIC_ROOT /\ ~UnderRoot(StaticResolved(reqPath))

\* C7: a request path that resolves outside the static root is answered 403
\* and never 200, and no file outside the root is read or served.
C7_OutsideRootIs403 ==
    \A r \in DOMAIN reqs :
        /\ Escapes(arg)
           => /\ Answered(reqs[r], 403)
              /\ ~reqs[r].reading /\ reqs[r].fileReads = {}
        /\ \A p \in reqs[r].fileReads : UnderRoot(p)
        /\ (reqs[r].res.writeHeads > 0 /\ reqs[r].res.status = 200)
           => UnderRoot(reqs[r].res.payload.v)

\* a file that exists outside the root was asked for and refused
C7_Witness ==
    \E r \in DOMAIN reqs :
        /\ Escapes(arg) /\ StaticResolved(arg) \in Files
        /\ Answered(reqs[r], 403)

---------------------------------------------------------------------------
(* Properties of the start of the process, under SpecEnv *)

\* the name occurs in the file
NamedInFile(name) == arg.file.exists /\ Includes(arg.file.text, name)

\* C11: a variable among GROQ_API_KEY and PORT that is set in the process
\* environment has the same value after the file is loaded, and the key the
\* server uses is the one of the process environment.
C11_SetVariablesKept ==
    Ran => /\ \A name \in {KeyName, PortName} :
                name \in DOMAIN arg.env => ret.env[name] = arg.env[name]
           /\ KeyName \in DOMAIN arg.env => GROQ_API_KEY = arg.env[KeyName]

\* What the loader keeps: a variable whose name is not in the file has the
\* value it had, and without a file the environment is as it was.
UnnamedVariablesKept ==
    Ran => /\ \A name \in DOMAIN arg.env :
                ~NamedInFile(name) => ret.env[name] = arg.env[name]
           /\ ~arg.file.exists => ret.env = arg.env

\* the key of the process environment was replaced by the file's
EnvKeyOverwritten ==
    /\ Ran /\ KeyName \in DOMAIN arg.env
    /\ arg.file = EnvFile(<<"GROQ_API_KEY", "=", "gsk_file">>)
    /\ GROQ_API_KEY = <<"gsk_file">>

---------------------------------------------------------------------------
(* Properties of the outbound calls, under Spec *)

\* A chat body that passes the checks of proxyGroqChat and whose messages
\* are objects or strings.
SendableChatBody(raw) ==
    /\ ~InvalidChatBody(raw)
    /\ Truthy(raw.value.v["model"])
    /\ \A i \in 1..Len(raw.value.v["messages"].v) :
          raw.value.v["messages"].v[i].t \in {"object", "string"}

\* the request was turned away by the server itself: a body that is invalid,
\* too large or whose stream failed, an unknown /api/ route
Rejected(rq) ==
    \/ rq.route = "api404"
    \/ rq.route = "chat" /\ Overflowed(rq)
    \/ rq.route = "chat" /\ rq.stream = "errored"
    \/ Proxied(rq) /\ InvalidChatBody(BodyText(rq))

\* C12: no request has more than one invocation of the upstream client or
\* more than one outbound call; with a key every invocation made one call,
\* without a key none did; GET /api/models and a received valid chat body
\* have made exactly one call when a key is set; rejected requests, static,
\* health and OPTIONS requests have made none; and once a call was started
\* for a request no step starts another or changes what was sent.
C12_OneCallNoRetry ==
    /\ [](\A r \in DOMAIN reqs :
            /\ reqs[r].invoked <= 1
            /\ reqs[r].calls = (IF GROQ_API_KEY # <<>> THEN reqs[r].invoked ELSE 0)
            /\ (GROQ_API_KEY # <<>> /\ reqs[r].method = "GET"
                    /\ reqs[r].pathname = ModelsTarget)
               => reqs[r].calls = 1
            /\ (GROQ_API_KEY # <<>> /\ Proxied(reqs[r])
                    /\ SendableChatBody(BodyText(reqs[r])))
               => reqs[r].calls = 1
            /\ Rejected(reqs[r]) => reqs[r].calls = 0 /\ reqs[r].invoked = 0
            /\ reqs[r].route \in {"options", "health", "static"}
               => reqs[r].calls = 0 /\ reqs[r].invoked = 0)
    /\ [][\A r \in DOMAIN reqs :
            reqs[r].calls > 0
            => /\ reqs'[r].calls = reqs[r].calls
               /\ reqs'[r].call.method = reqs[r].call.method
               /\ reqs'[r].call.path = reqs[r].call.path
               /\ reqs'[r].call.body = reqs[r].call.body]_vars

\* the one call of a chat request failed and was answered 502, with no
\* second call
C12_Witness ==
    \E r \in DOMAIN reqs :
        /\ Proxied(reqs[r]) /\ SendableChatBody(BodyText(reqs[r]))
        /\ reqs[r].call.state = "failed" /\ reqs[r].calls = 1
        /\ Answered(reqs[r], 502)

---------------------------------------------------------------------------
(* Properties of the upstream timeout, under SpecAbort *)

TimedOut(rq) == rq.call.state # "none" /\ rq.call.timedOut

\* C13: once the timeout of an outbound request has fired the request is
\* destroyed and its failure is reported: the error callback runs (chat is
\* answered 502 with the timeout's message, the model listing 200 with the
\* fallback list), and from the timeout on the success callback is not
\* invoked and nothing else is written.
C13_TimeoutFails ==
    /\ [](\A r \in DOMAIN reqs :
            TimedOut(reqs[r])
            => /\ reqs[r].call.state \in {"timedout", "failed"}
               /\ reqs[r].doneCalls = 0
               /\ reqs[r].call.state = "failed"
                  => /\ reqs[r].errorCalls = 1
                     /\ IF reqs[r].route = "models"
                        THEN reqs[r].res = [writeHeads |-> 1, status |-> 200,
                                            payload |-> JObj([models |-> GROQ_MODELS_FALLBACK])]
                        ELSE /\ Answered(reqs[r], 502)
                             /\ MessageOf(reqs[r].res.payload)
                                  = <<"Groq request failed: ">> \o TimeoutMessage)
    /\ [][\A r \in DOMAIN reqs :
            TimedOut(reqs[r]) => reqs'[r].doneCalls = reqs[r].doneCalls]_vars
    /\ \A r \in 1..MaxReq :
          (r \in DOMAIN reqs /\ TimedOut(reqs[r]))
          ~> (r \in DOMAIN reqs /\ reqs[r].call.state = "failed")

\* the timeout of a chat request's outbound call fired, its error was
\* reported and the request was answered 502
C13_Witness ==
    \E r \in DOMAIN reqs :
        /\ reqs[r].route = "chat" /\ TimedOut(reqs[r])
        /\ reqs[r].call.state = "failed"
        /\ Answered(reqs[r], 502)

---------------------------------------------------------------------------
(* Properties of the response of one request, under Spec *)

\* C14: whatever the order of the events of the body stream and of the
\* outbound request, writeHead is called at most once on a response, the
\* upstream client has invoked at most one of onDone and onError for the
\* request, and a response that was written is not changed by a later event.
C14_OneResponse ==
    /\ [](\A r \in DOMAIN reqs :
            /\ reqs[r].res.writeHeads <= 1
            /\ reqs[r].doneCalls + reqs[r].errorCalls <= 1
            /\ reqs[r].doneCalls + reqs[r].errorCalls <= reqs[r].invoked)
    /\ [][\A r \in DOMAIN reqs :
            reqs[r].res.writeHeads > 0 => reqs'[r].res = reqs[r].res]_vars

\* the body went over the limit, was answered 413, and the stream then failed
C14_Witness ==
    \E r \in DOMAIN reqs :
        /\ Overflowed(reqs[r]) /\ reqs[r].stream = "errored"
        /\ reqs[r].res.writeHeads = 1

---------------------------------------------------------------------------
(* Properties of termination, under FairSpec *)

Responded(r) == r \in DOMAIN reqs /\ reqs[r].res.writeHeads > 0

\* the request was left by an exception: the URL constructor of line 274, or
\* m.role of a null element in the map of doGroqChat
Thrown(rq) == rq.crashed /\ rq.res.writeHeads = 0

\* C15: every chat request whose received body is JSON with a `model` and a
\* `messages` array is eventually answered, whatever the elements of the
\* array, and so is every other inbound request.
C15_EveryRequestAnswered ==
    \A r \in 1..MaxReq :
        /\ (r \in DOMAIN reqs /\ Proxied(reqs[r]) /\ ~InvalidChatBody(BodyText(reqs[r])))
           ~> Responded(r)
        /\ (r \in DOMAIN reqs) ~> Responded(r)

\* What holds: a request whose handler did not throw is eventually answered,
\* and one whose handler threw never is.
UnthrownRequestsAnswered ==
    /\ \A r \in 1..MaxReq :
          (r \in DOMAIN reqs /\ ~Thrown(reqs[r]))
          ~> (Responded(r) \/ (r \in DOMAIN reqs /\ Thrown(reqs[r])))
    /\ [][\A r \in DOMAIN reqs : Thrown(reqs[r]) => Thrown(reqs'[r])]_vars

\* the handler throws exactly for the targets the URL constructor rejects and
\* for the received chat bodies that pass the checks with a null element
ThrownOnlyByUrlOrNull ==
    \A r \in DOMAIN reqs :
        Thrown(reqs[r])
        <=> \/ ~Parsed(reqs[r])
            \/ /\ Proxied(reqs[r]) /\ ~InvalidChatBody(BodyText(reqs[r]))
               /\ \E i \in 1..Len(BodyText(reqs[r]).value.v["messages"].v) :
                     BodyText(reqs[r]).value.v["messages"].v[i].t = "null"

\* a chat body with messages [null] was received and the request is left
\* without a response
NullMessageUnanswered ==
    \E r \in DOMAIN reqs :
        /\ Parsed(reqs[r]) /\ Proxied(reqs[r]) /\ Thrown(reqs[r])

====
